---- MODULE Spec2Model ----
(***************************************************************************)
(* beancount-tui: the focus/navigation state machine of App (src/app.rs)   *)
(* over the per-transaction text fields of TransactionTui                  *)
(* (src/beancount.rs).                                                     *)
(*                                                                         *)
(* Strings are sequences of one-character strings.  A TextArea is the      *)
(* record [text, cursor, style]: text is the buffer with "\n" separating   *)
(* its lines, cursor the offset of the cursor in it, style the look that   *)
(* update_textareas last gave it ("default" is the look of a freshly       *)
(* created TextArea).  Indices are 0-based as in the source; a sequence s  *)
(* is read at 0-based index i by s[i + 1].                                 *)
(***************************************************************************)
EXTENDS Integers, Sequences, FiniteSets, TLC

VARIABLES
    exit,                               \* App.exit
    transactions,                       \* App.transactions
    current_index,                      \* App.current_index
    currently_selected_metadata_field,  \* App.currently_selected_metadata_field
    currently_selected_posting,         \* App.currently_selected_posting
    currently_selected_posting_field,   \* App.currently_selected_posting_field
    focus_on_postings,                  \* App.focus_on_postings
    popup,                              \* App.popup
    panic,                              \* "none", or the message of the panic that ended the process
    result,                             \* <<>> while run has not returned, <<v>> once run returned Ok(v)
    beancount,                          \* what parse_beancount_file returned to App::new
    pc                                  \* main is at: "new" before App::new, "run" in App::run,
                                        \* "err" once App::new returned Err

vars == <<exit, transactions, current_index, currently_selected_metadata_field,
          currently_selected_posting, currently_selected_posting_field,
          focus_on_postings, popup, panic, result, beancount, pc>>

\* the fields of App
app == <<exit, transactions, current_index, currently_selected_metadata_field,
         currently_selected_posting, currently_selected_posting_field,
         focus_on_postings, popup>>

\* what main holds besides the App
startup == <<beancount, pc>>

focus == <<currently_selected_metadata_field, currently_selected_posting,
           currently_selected_posting_field, focus_on_postings>>

-----------------------------------------------------------------------------
(* Bounds of the model *)

\* postings of a parsed transaction: 0..MaxParsedPostings
MaxParsedPostings == 1
\* add_posting and text input that inserts are offered while the ledger holds
\* fewer edits (postings added + characters typed, in all transactions together)
MaxEdits == 1
\* directives of a parsed file: 0..MaxDirectives
MaxDirectives == 4

-----------------------------------------------------------------------------
(* Constants of the program *)

METAFIELD_ORDER == <<"Date", "Flag", "Payee", "Narration">>

POSTING_FIELD_ORDER == <<"Account", "Amount", "Currency">>

\* usize::MAX, the value 0 - 1 wraps to without overflow checks.  It is kept
\* symbolic (2^64 - 1 is beyond TLC's integers): the only thing the program
\* does with it before the next lookup panics is to compare it with indices.
USIZE_MAX == 0 - 1

None == [some |-> FALSE]

Some(v) == [some |-> TRUE, value |-> v]

Ok(v) == [ok |-> TRUE, value |-> v]

Err(e) == [ok |-> FALSE, error |-> e]

-----------------------------------------------------------------------------
(* utils.rs, beancount.rs: building the text fields from a parsed directive *)

Digit(n) == SubSeq(<<"0", "1", "2", "3", "4", "5", "6", "7", "8", "9">>, n + 1, n + 1)

RECURSIVE Decimal(_)
Decimal(n) == IF n < 10 THEN Digit(n) ELSE Decimal(n \div 10) \o Digit(n % 10)

Pad02(n) == IF n < 10 THEN <<"0">> \o Digit(n) ELSE Decimal(n)

format_date(date) == Decimal(date.year) \o <<"-">> \o Pad02(date.month) \o <<"-">> \o Pad02(date.day)

create_textarea(value) == [text |-> value, cursor |-> 0, style |-> "default"]

PostingTuiFrom(value) ==
    LET amount   == IF value.amount.some THEN value.amount.value.value ELSE <<>>
        currency == IF value.amount.some THEN value.amount.value.currency ELSE <<>>
    IN  [account_textarea  |-> create_textarea(value.account),
         amount_textarea   |-> create_textarea(amount),
         currency_textarea |-> create_textarea(currency)]

TransactionTuiFrom(value) ==
    LET transaction == value.content IN
    [directive |-> transaction,
     metadata_textareas |->
        << create_textarea(format_date(value.date)),
           create_textarea(IF transaction.flag.some THEN transaction.flag.value ELSE <<"*">>),
           create_textarea(IF transaction.payee.some THEN transaction.payee.value ELSE <<>>),
           create_textarea(IF transaction.narration.some THEN transaction.narration.value ELSE <<>>) >>,
     postings_textareas |->
        [k \in 1..Len(transaction.postings) |-> PostingTuiFrom(transaction.postings[k])]]

get_field(posting, field) ==
    CASE field = "Account"  -> posting.account_textarea
      [] field = "Amount"   -> posting.amount_textarea
      [] field = "Currency" -> posting.currency_textarea

set_field(posting, field, ta) ==
    CASE field = "Account"  -> [posting EXCEPT !.account_textarea = ta]
      [] field = "Amount"   -> [posting EXCEPT !.amount_textarea = ta]
      [] field = "Currency" -> [posting EXCEPT !.currency_textarea = ta]

\* mutant of next_field: the direction is ignored
next_field_forward_only(current_field, forward) ==
    CASE current_field = "Account"  -> "Amount"
      [] current_field = "Amount"   -> "Currency"
      [] current_field = "Currency" -> "Account"

next_field(current_field, forward) ==
    CASE current_field = "Account"  /\ forward  -> "Amount"
      [] current_field = "Amount"   /\ forward  -> "Currency"
      [] current_field = "Currency" /\ forward  -> "Account"
      [] current_field = "Account"  /\ ~forward -> "Currency"
      [] current_field = "Currency" /\ ~forward -> "Amount"
      [] current_field = "Amount"   /\ ~forward -> "Account"

\* mutant of TransactionTui_try_from: an absent flag gives an empty flag field
TransactionTui_try_from_no_default_flag(value) ==
    IF value.content.kind # "Transaction"
    THEN Err("Can only parse Transactions")
    ELSE Ok([TransactionTuiFrom(value) EXCEPT !.metadata_textareas[2] =
                create_textarea(IF value.content.flag.some THEN value.content.flag.value ELSE <<>>)])

\* TryFrom<&Directive> for TransactionTui: Err for a directive that is no
\* transaction, else the record TransactionTuiFrom builds
TransactionTui_try_from(value) ==
    IF value.content.kind # "Transaction"
    THEN Err("Can only parse Transactions")
    ELSE Ok(TransactionTuiFrom(value))

\* mutant of filter_transactions: the directives come out in reverse order
filter_transactions_reversed(directives) ==
    LET kept == SelectSeq(directives, LAMBDA d : d.content.kind = "Transaction")
    IN  [i \in 1..Len(kept) |-> kept[Len(kept) + 1 - i]]

filter_transactions(directives) ==
    SelectSeq(directives, LAMBDA d : d.content.kind = "Transaction")

-----------------------------------------------------------------------------
(* beancount.rs: format_transaction *)

\* TextArea::lines: the lines of the buffer
RECURSIVE Lines(_)
Lines(text) ==
    IF \A i \in 1..Len(text) : text[i] # "\n"
    THEN <<text>>
    ELSE LET first == CHOOSE i \in 1..Len(text) :
                        text[i] = "\n" /\ \A k \in 1..(i - 1) : text[k] # "\n"
         IN  <<SubSeq(text, 1, first - 1)>> \o Lines(SubSeq(text, first + 1, Len(text)))

\* [String]::join
RECURSIVE Join(_, _)
Join(strings, separator) ==
    IF strings = <<>> THEN <<>>
    ELSE IF Len(strings) = 1 THEN strings[1]
    ELSE strings[1] \o separator \o Join(Tail(strings), separator)

\* mutant of format_transaction: one space between account and amount
format_transaction_one_space(tx) ==
    LET metadata == [i \in 1..4 |-> Join(Lines(tx.metadata_textareas[i].text), <<" ">>)]
        postings == [i \in 1..Len(tx.postings_textareas) |->
            <<" ", " ", " ", " ">>
                \o Join(Lines(tx.postings_textareas[i].account_textarea.text), <<" ">>)
                \o <<" ">>
                \o Join(Lines(tx.postings_textareas[i].amount_textarea.text), <<" ">>)
                \o <<" ">>
                \o Join(Lines(tx.postings_textareas[i].currency_textarea.text), <<" ">>)]
    IN  metadata[1] \o <<" ">> \o metadata[2] \o <<" ">> \o metadata[3] \o <<" ">> \o metadata[4]
            \o <<"\n">> \o Join(postings, <<"\n">>)

format_transaction(tx) ==
    LET metadata == [i \in 1..4 |-> Join(Lines(tx.metadata_textareas[i].text), <<" ">>)]
        postings == [i \in 1..Len(tx.postings_textareas) |->
            <<" ", " ", " ", " ">>
                \o Join(Lines(tx.postings_textareas[i].account_textarea.text), <<" ">>)
                \o <<" ", " ", " ", " ">>
                \o Join(Lines(tx.postings_textareas[i].amount_textarea.text), <<" ">>)
                \o <<" ">>
                \o Join(Lines(tx.postings_textareas[i].currency_textarea.text), <<" ">>)]
    IN  metadata[1] \o <<" ">> \o metadata[2] \o <<" ">> \o metadata[3] \o <<" ">> \o metadata[4]
            \o <<"\n">> \o Join(postings, <<"\n">>)

-----------------------------------------------------------------------------
(* The ledgers the model is run on: transaction directives as the parser    *)
(* yields them, already filtered                                           *)

ParsedPosting(k) ==
    [account |-> <<"A">>,
     amount  |-> IF k = 1 THEN Some([value |-> <<"1">>, currency |-> <<"U">>]) ELSE None]

ParsedDirective(n) ==
    [date    |-> [year |-> 2024, month |-> IF n = 1 THEN 12 ELSE 1, day |-> IF n = 1 THEN 31 ELSE n + 1],
     content |-> [kind      |-> "Transaction",
                  flag      |-> IF n = 0 THEN None ELSE Some(<<"!">>),
                  payee     |-> IF n = 0 THEN None ELSE Some(<<"P">>),
                  narration |-> IF n = 1 THEN Some(<<"N">>) ELSE None,
                  postings  |-> [k \in 1..n |-> ParsedPosting(k)]]]

\* ledgers of one transaction and of two
Ledgers ==
    LET Directives == {ParsedDirective(n) : n \in 0..MaxParsedPostings}
    IN  {<<d>> : d \in Directives} \cup {<<d, e>> : d \in Directives, e \in Directives}

\* a directive of another kind; of its content only the kind is looked at
OtherDirective(kind) ==
    [date |-> [year |-> 2023, month |-> 6, day |-> 15], content |-> [kind |-> kind]]

\* a transaction whose one posting has no amount
ParsedDirectiveWithoutAmount ==
    [date    |-> [year |-> 2025, month |-> 10, day |-> 9],
     content |-> [kind      |-> "Transaction",
                  flag      |-> Some(<<"*">>),
                  payee     |-> None,
                  narration |-> Some(<<"N">>),
                  postings  |-> <<[account |-> <<"B">>, amount |-> None]>>]]

\* the files parse_beancount_file yields: up to MaxDirectives directives,
\* transactions and others in any order
BeancountFiles ==
    LET Directives == {ParsedDirective(n) : n \in 0..MaxParsedPostings}
                        \cup {ParsedDirectiveWithoutAmount}
                        \cup {OtherDirective(kind) : kind \in {"Open", "Balance", "Price"}}
    IN  UNION {[1..n -> Directives] : n \in 0..MaxDirectives}

-----------------------------------------------------------------------------
(* app.rs: update_textareas *)

Highlight(ta, selected) == [ta EXCEPT !.style = IF selected THEN "highlight" ELSE "plain"]

update_textareas(txs, index, metadata_field, posting, posting_field, on_postings) ==
    LET current_transaction == txs[index + 1]
        metadata == [i \in 1..4 |->
            Highlight(current_transaction.metadata_textareas[i],
                      (i - 1) = metadata_field /\ ~on_postings)]
        hl(p, i, f) == Highlight(get_field(p, f), (i - 1) = posting /\ f = posting_field /\ on_postings)
        postings == [i \in 1..Len(current_transaction.postings_textareas) |->
            LET p == current_transaction.postings_textareas[i] IN
            [account_textarea  |-> hl(p, i, "Account"),
             amount_textarea   |-> hl(p, i, "Amount"),
             currency_textarea |-> hl(p, i, "Currency")]]
    IN  [txs EXCEPT ![index + 1] =
            [@ EXCEPT !.metadata_textareas = metadata, !.postings_textareas = postings]]

-----------------------------------------------------------------------------
(* app.rs: App::new *)

Init ==
    \E ledger \in Ledgers :
        /\ exit = FALSE
        /\ current_index = 0
        /\ currently_selected_metadata_field = 2
        /\ currently_selected_posting = 0
        /\ currently_selected_posting_field = "Account"
        /\ focus_on_postings = FALSE
        /\ popup = [active |-> FALSE, prompt |-> ""]
        /\ transactions =
              update_textareas([i \in 1..Len(ledger) |-> TransactionTuiFrom(ledger[i])],
                               0, 2, 0, "Account", FALSE)
        /\ panic = "none"
        /\ result = <<>>
        /\ beancount = Ok(ledger)
        /\ pc = "run"

\* main before App::new: the file is read and parsed (or was not), no App yet
InitLoad ==
    /\ beancount \in {Ok(file) : file \in BeancountFiles} \cup {Err("parse")}
    /\ pc = "new"
    /\ exit = FALSE
    /\ transactions = <<>>
    /\ current_index = 0
    /\ currently_selected_metadata_field = 0
    /\ currently_selected_posting = 0
    /\ currently_selected_posting_field = "Account"
    /\ focus_on_postings = FALSE
    /\ popup = [active |-> FALSE, prompt |-> ""]
    /\ panic = "none"
    /\ result = <<>>

\* mutant of App_new: the focus starts on the first metadata field
App_new_focus_first ==
    /\ pc = "new" /\ panic = "none"
    /\ IF ~beancount.ok
       THEN pc' = "err" /\ UNCHANGED <<app, panic>>
       ELSE LET filtered == filter_transactions(beancount.value)
                parsed   == [i \in 1..Len(filtered) |-> TransactionTui_try_from(filtered[i])]
            IN  IF \E i \in 1..Len(parsed) : ~parsed[i].ok
                THEN panic' = "Couldn't parse trnsaction!" /\ UNCHANGED <<app, pc>>
                ELSE IF Len(parsed) = 0
                THEN panic' = "index out of bounds" /\ UNCHANGED <<app, pc>>
                ELSE /\ exit' = FALSE
                     /\ current_index' = 0
                     /\ currently_selected_metadata_field' = 0
                     /\ currently_selected_posting' = 0
                     /\ currently_selected_posting_field' = "Account"
                     /\ focus_on_postings' = FALSE
                     /\ popup' = [active |-> FALSE, prompt |-> ""]
                     /\ transactions' =
                            update_textareas([i \in 1..Len(parsed) |-> parsed[i].value],
                                             0, 0, 0, "Account", FALSE)
                     /\ pc' = "run"
                     /\ UNCHANGED panic
    /\ UNCHANGED <<result, beancount>>

\* App::new: a parse error is returned; the transactions are filtered out of
\* the file and turned into records (expect panics on an Err); the App is
\* built and update_textareas looks up transactions[current_index]
App_new ==
    /\ pc = "new" /\ panic = "none"
    /\ IF ~beancount.ok
       THEN pc' = "err" /\ UNCHANGED <<app, panic>>
       ELSE LET filtered == filter_transactions(beancount.value)
                parsed   == [i \in 1..Len(filtered) |-> TransactionTui_try_from(filtered[i])]
            IN  IF \E i \in 1..Len(parsed) : ~parsed[i].ok
                THEN panic' = "Couldn't parse trnsaction!" /\ UNCHANGED <<app, pc>>
                ELSE IF Len(parsed) = 0
                THEN panic' = "index out of bounds" /\ UNCHANGED <<app, pc>>
                ELSE /\ exit' = FALSE
                     /\ current_index' = 0
                     /\ currently_selected_metadata_field' = 2
                     /\ currently_selected_posting' = 0
                     /\ currently_selected_posting_field' = "Account"
                     /\ focus_on_postings' = FALSE
                     /\ popup' = [active |-> FALSE, prompt |-> ""]
                     /\ transactions' =
                            update_textareas([i \in 1..Len(parsed) |-> parsed[i].value],
                                             0, 2, 0, "Account", FALSE)
                     /\ pc' = "run"
                     /\ UNCHANGED panic
    /\ UNCHANGED <<result, beancount>>

-----------------------------------------------------------------------------
(* Key events.  The commands of handle_key_event and handle_popup_key_event, *)
(* and three keys that handle_key_event passes on to the focused TextArea:  *)
(* a character, Enter and Backspace.                                        *)

Keys == {"Esc", "Enter", "Ctrl+q", "Ctrl+n", "Ctrl+p", "Ctrl+l", "Ctrl+h",
         "Ctrl+j", "Ctrl+k", "Ctrl+o", "x", "Backspace"}

Commands == {"Esc", "Ctrl+q", "Ctrl+n", "Ctrl+p", "Ctrl+l", "Ctrl+h", "Ctrl+j", "Ctrl+k", "Ctrl+o"}

(* TextArea::input of tui_textarea for these keys: a character and Enter    *)
(* are inserted at the cursor, Backspace deletes the character before it.   *)
TextAreaInput(ta, key) ==
    CASE key = "Backspace" ->
            IF ta.cursor = 0 THEN ta
            ELSE [ta EXCEPT !.text = SubSeq(ta.text, 1, ta.cursor - 1)
                                        \o SubSeq(ta.text, ta.cursor + 1, Len(ta.text)),
                            !.cursor = ta.cursor - 1]
      [] OTHER ->
            [ta EXCEPT !.text = SubSeq(ta.text, 1, ta.cursor)
                                    \o << IF key = "Enter" THEN "\n" ELSE key >>
                                    \o SubSeq(ta.text, ta.cursor + 1, Len(ta.text)),
                       !.cursor = ta.cursor + 1]

RECURSIVE SumSeq(_)
SumSeq(s) == IF s = <<>> THEN 0 ELSE Head(s) + SumSeq(Tail(s))

TypedIn(tx) ==
    SumSeq([i \in 1..4 |-> tx.metadata_textareas[i].cursor])
    + SumSeq([i \in 1..Len(tx.postings_textareas) |->
                tx.postings_textareas[i].account_textarea.cursor
                + tx.postings_textareas[i].amount_textarea.cursor
                + tx.postings_textareas[i].currency_textarea.cursor])

\* characters typed so far into all fields (no modelled key moves a cursor otherwise)
Typed == SumSeq([i \in 1..Len(transactions) |-> TypedIn(transactions[i])])

\* postings added so far to all transactions
Added ==
    SumSeq([i \in 1..Len(transactions) |->
        Len(transactions[i].postings_textareas) - Len(transactions[i].directive.postings)])

-----------------------------------------------------------------------------
(* app.rs: the operations of App *)

n_postings == Len(transactions[current_index + 1].postings_textareas)

\* the bounds checks of the lookups at the head of handle_key_event
CurrentFieldInRange ==
    /\ current_index \in 0..(Len(transactions) - 1)
    /\ IF focus_on_postings
       THEN currently_selected_posting \in 0..(n_postings - 1)
       ELSE currently_selected_metadata_field \in 0..3

Panic(message) ==
    /\ panic' = message
    /\ UNCHANGED <<exit, transactions, current_index, focus, popup, result>>

\* mutant of show: the prompt is not stored
show_drops_prompt(prompt) == popup' = [active |-> TRUE, prompt |-> popup.prompt]

show(prompt) == popup' = [active |-> TRUE, prompt |-> prompt]

hide == popup' = [popup EXCEPT !.active = FALSE]

\* mutant of confirm_close: the quit key ends the session at once
confirm_close_exits ==
    /\ exit' = TRUE
    /\ UNCHANGED <<transactions, current_index, focus, popup, panic, result>>

confirm_close ==
    /\ show("Do you want to close the application and print the transaction to stdout?")
    /\ UNCHANGED <<exit, transactions, current_index, focus, panic, result>>

\* mutant of next_transaction_index: wraps around at the end of the list
next_transaction_index_wraps(index, len) ==
    (index + 1) % len

\* the index next_transaction moves to, in a list of len transactions
next_transaction_index(index, len) ==
    IF index < len - 1 THEN index + 1 ELSE index

\* the index prev_transaction moves to: saturating_sub(1)
prev_transaction_index(index) ==
    IF index = 0 THEN 0 ELSE index - 1

\* mutant of next_transaction: the text fields of the transaction moved to are
\* built again from its parsed directive
next_transaction_rebuilds ==
    /\ current_index' = next_transaction_index(current_index, Len(transactions))
    /\ transactions' = update_textareas(
            [transactions EXCEPT ![current_index' + 1] =
                [@ EXCEPT !.metadata_textareas =
                        << @[1],
                           create_textarea(IF transactions[current_index' + 1].directive.flag.some
                                           THEN transactions[current_index' + 1].directive.flag.value
                                           ELSE <<"*">>),
                           create_textarea(IF transactions[current_index' + 1].directive.payee.some
                                           THEN transactions[current_index' + 1].directive.payee.value
                                           ELSE <<>>),
                           create_textarea(IF transactions[current_index' + 1].directive.narration.some
                                           THEN transactions[current_index' + 1].directive.narration.value
                                           ELSE <<>>) >>]],
            current_index', currently_selected_metadata_field, currently_selected_posting,
            currently_selected_posting_field, focus_on_postings)
    /\ UNCHANGED <<exit, focus, popup, panic, result>>

next_transaction ==
    /\ current_index' = next_transaction_index(current_index, Len(transactions))
    /\ transactions' = update_textareas(transactions, current_index',
                            currently_selected_metadata_field, currently_selected_posting,
                            currently_selected_posting_field, focus_on_postings)
    /\ UNCHANGED <<exit, focus, popup, panic, result>>

prev_transaction ==
    /\ current_index' = prev_transaction_index(current_index)
    /\ transactions' = update_textareas(transactions, current_index',
                            currently_selected_metadata_field, currently_selected_posting,
                            currently_selected_posting_field, focus_on_postings)
    /\ UNCHANGED <<exit, focus, popup, panic, result>>

\* mutant of navigate_metadata_index: stops at the first and the last slot
navigate_metadata_index_clamps(index, forward) ==
    IF forward
    THEN (IF index + 1 < Len(METAFIELD_ORDER) THEN index + 1 ELSE index)
    ELSE (IF index > 0 THEN index - 1 ELSE index)

\* the metadata slot navigate_metadata_field moves to
navigate_metadata_index(index, forward) ==
    IF forward
    THEN (index + 1) % Len(METAFIELD_ORDER)
    ELSE (index + Len(METAFIELD_ORDER) - 1) % Len(METAFIELD_ORDER)

navigate_metadata_field(forward) ==
    /\ currently_selected_metadata_field' =
          navigate_metadata_index(currently_selected_metadata_field, forward)
    /\ transactions' = update_textareas(transactions, current_index,
                            currently_selected_metadata_field', currently_selected_posting,
                            currently_selected_posting_field, focus_on_postings)
    /\ UNCHANGED <<exit, current_index, currently_selected_posting,
                   currently_selected_posting_field, focus_on_postings,
                   popup, panic, result>>

\* mutant of navigate_posting: the forward bound is off by one (> for >=)
navigate_posting_off_by_one(forward) ==
    /\ IF forward
       THEN LET next_posting == currently_selected_posting + 1 IN
            IF next_posting > n_postings
            THEN focus_on_postings' = FALSE /\ UNCHANGED currently_selected_posting
            ELSE currently_selected_posting' = next_posting /\ UNCHANGED focus_on_postings
       ELSE IF currently_selected_posting = 0
            THEN focus_on_postings' = FALSE /\ UNCHANGED currently_selected_posting
            ELSE currently_selected_posting' = currently_selected_posting - 1
                 /\ UNCHANGED focus_on_postings
    /\ transactions' = update_textareas(transactions, current_index,
                            currently_selected_metadata_field, currently_selected_posting',
                            currently_selected_posting_field, focus_on_postings')
    /\ UNCHANGED <<exit, current_index, currently_selected_metadata_field,
                   currently_selected_posting_field, popup, panic, result>>

navigate_posting(forward) ==
    /\ IF forward
       THEN LET next_posting == currently_selected_posting + 1 IN
            IF next_posting >= n_postings
            THEN focus_on_postings' = FALSE /\ UNCHANGED currently_selected_posting
            ELSE currently_selected_posting' = next_posting /\ UNCHANGED focus_on_postings
       ELSE IF currently_selected_posting = 0
            THEN focus_on_postings' = FALSE /\ UNCHANGED currently_selected_posting
            ELSE currently_selected_posting' = currently_selected_posting - 1
                 /\ UNCHANGED focus_on_postings
    /\ transactions' = update_textareas(transactions, current_index,
                            currently_selected_metadata_field, currently_selected_posting',
                            currently_selected_posting_field, focus_on_postings')
    /\ UNCHANGED <<exit, current_index, currently_selected_metadata_field,
                   currently_selected_posting_field, popup, panic, result>>

\* mutant of navigate_posting_field: the selection goes back to the first posting
navigate_posting_field_to_first(forward) ==
    IF currently_selected_posting \notin 0..(n_postings - 1)
    THEN Panic("index out of bounds")
    ELSE /\ currently_selected_posting_field' =
                next_field(currently_selected_posting_field, forward)
         /\ currently_selected_posting' = 0
         /\ transactions' = update_textareas(transactions, current_index,
                            currently_selected_metadata_field, currently_selected_posting',
                            currently_selected_posting_field', focus_on_postings)
         /\ UNCHANGED <<exit, current_index, currently_selected_metadata_field,
                        focus_on_postings, popup, panic, result>>

navigate_posting_field(forward) ==
    IF currently_selected_posting \notin 0..(n_postings - 1)
    THEN Panic("index out of bounds")
    ELSE /\ currently_selected_posting_field' =
                next_field(currently_selected_posting_field, forward)
         /\ transactions' = update_textareas(transactions, current_index,
                            currently_selected_metadata_field, currently_selected_posting,
                            currently_selected_posting_field', focus_on_postings)
         /\ UNCHANGED <<exit, current_index, currently_selected_metadata_field,
                        currently_selected_posting, focus_on_postings,
                        popup, panic, result>>

\* mutant of enter_postings_from_top: a transaction without postings is given
\* one to enter
enter_postings_from_top_adds_posting ==
    /\ focus_on_postings' = TRUE
    /\ currently_selected_posting' = 0
    /\ transactions' = update_textareas(
            IF n_postings = 0
            THEN [transactions EXCEPT ![current_index + 1] =
                    [@ EXCEPT !.postings_textareas =
                        <<[account_textarea  |-> create_textarea(<<>>),
                           amount_textarea   |-> create_textarea(<<>>),
                           currency_textarea |-> create_textarea(<<>>)]>>]]
            ELSE transactions,
            current_index, currently_selected_metadata_field, currently_selected_posting',
            currently_selected_posting_field, focus_on_postings')
    /\ UNCHANGED <<exit, current_index, currently_selected_metadata_field,
                   currently_selected_posting_field, popup, panic, result>>

\* the Ctrl+j arm of handle_key_event while focus is on the metadata row
enter_postings_from_top ==
    /\ focus_on_postings' = TRUE
    /\ currently_selected_posting' = 0
    /\ transactions' = update_textareas(transactions, current_index,
                            currently_selected_metadata_field, currently_selected_posting',
                            currently_selected_posting_field, focus_on_postings')
    /\ UNCHANGED <<exit, current_index, currently_selected_metadata_field,
                   currently_selected_posting_field, popup, panic, result>>

\* the Ctrl+k arm of handle_key_event while focus is on the metadata row;
\* len() - 1 on an empty posting list panics in a build with overflow checks
\* (debug) and wraps to usize::MAX in one without (release): either outcome
enter_postings_from_bottom ==
    /\ focus_on_postings' = TRUE
    /\ \/ /\ n_postings = 0
          /\ panic' = "attempt to subtract with overflow"
          /\ UNCHANGED <<currently_selected_posting, transactions>>
       \/ /\ currently_selected_posting' = IF n_postings = 0 THEN USIZE_MAX ELSE n_postings - 1
          /\ transactions' = update_textareas(transactions, current_index,
                            currently_selected_metadata_field, currently_selected_posting',
                            currently_selected_posting_field, focus_on_postings')
          /\ UNCHANGED panic
    /\ UNCHANGED <<exit, current_index, currently_selected_metadata_field,
                   currently_selected_posting_field, popup, result>>

\* TransactionTui::add_posting: a new posting with three empty fields at the end
TransactionTui_add_posting(tx) ==
    [tx EXCEPT !.postings_textareas =
        Append(@, [account_textarea  |-> create_textarea(<<>>),
                   amount_textarea   |-> create_textarea(<<>>),
                   currency_textarea |-> create_textarea(<<>>)])]

\* mutant of add_posting: the new posting takes the focus
add_posting_focuses_new ==
    /\ Typed + Added < MaxEdits
    /\ focus_on_postings' = TRUE
    /\ currently_selected_posting' = n_postings
    /\ transactions' = update_textareas(
            [transactions EXCEPT ![current_index + 1] = TransactionTui_add_posting(@)],
            current_index, currently_selected_metadata_field, currently_selected_posting',
            currently_selected_posting_field, focus_on_postings')
    /\ UNCHANGED <<exit, current_index, currently_selected_metadata_field,
                   currently_selected_posting_field, popup, panic, result>>

\* mutant of add_posting: the posting is added to the first transaction
add_posting_to_first ==
    /\ Typed + Added < MaxEdits
    /\ transactions' = update_textareas(
            [transactions EXCEPT ![1] = TransactionTui_add_posting(@)],
            current_index, currently_selected_metadata_field, currently_selected_posting,
            currently_selected_posting_field, focus_on_postings)
    /\ UNCHANGED <<exit, current_index, focus, popup, panic, result>>

add_posting ==
    /\ Typed + Added < MaxEdits
    /\ transactions' = update_textareas(
            [transactions EXCEPT ![current_index + 1] = TransactionTui_add_posting(@)],
            current_index, currently_selected_metadata_field, currently_selected_posting,
            currently_selected_posting_field, focus_on_postings)
    /\ UNCHANGED <<exit, current_index, focus, popup, panic, result>>

\* mutant of text_input: the key goes to the selected metadata field also
\* while the focus is on a posting
text_input_to_metadata(key) ==
    /\ key = "Backspace" \/ Typed + Added < MaxEdits
    /\ transactions' =
          [transactions EXCEPT ![current_index + 1] =
              [@ EXCEPT !.metadata_textareas[currently_selected_metadata_field + 1] =
                        TextAreaInput(@, key)]]
    /\ UNCHANGED <<exit, current_index, focus, popup, panic, result>>

\* current_field.input(text_input), current_field being the field looked up
\* at the head of handle_key_event
text_input(key) ==
    /\ key = "Backspace" \/ Typed + Added < MaxEdits
    /\ transactions' =
          [transactions EXCEPT ![current_index + 1] =
              IF focus_on_postings
              THEN [@ EXCEPT !.postings_textareas[currently_selected_posting + 1] =
                        set_field(@, currently_selected_posting_field,
                            TextAreaInput(get_field(@, currently_selected_posting_field), key))]
              ELSE [@ EXCEPT !.metadata_textareas[currently_selected_metadata_field + 1] =
                        TextAreaInput(@, key)]]
    /\ UNCHANGED <<exit, current_index, focus, popup, panic, result>>

handle_key_event(key_event) ==
    IF ~CurrentFieldInRange
    THEN Panic("index out of bounds")
    ELSE CASE key_event \in {"Esc", "Ctrl+q"} -> confirm_close
           [] key_event = "Ctrl+n" -> next_transaction
           [] key_event = "Ctrl+p" -> prev_transaction
           [] key_event = "Ctrl+l" ->
                IF focus_on_postings THEN navigate_posting_field(TRUE)
                ELSE navigate_metadata_field(TRUE)
           [] key_event = "Ctrl+h" ->
                IF focus_on_postings THEN navigate_posting_field(FALSE)
                ELSE navigate_metadata_field(FALSE)
           [] key_event = "Ctrl+j" ->
                IF focus_on_postings THEN navigate_posting(TRUE)
                ELSE enter_postings_from_top
           [] key_event = "Ctrl+k" ->
                IF focus_on_postings THEN navigate_posting(FALSE)
                ELSE enter_postings_from_bottom
           [] key_event = "Ctrl+o" -> add_posting
           [] OTHER -> text_input(key_event)

\* mutant of handle_popup_key_event: Enter closes the popup as Esc does
handle_popup_key_event_enter_hides(key_event) ==
    CASE key_event \in {"Esc", "Enter"} ->
            /\ hide
            /\ UNCHANGED <<exit, transactions, current_index, focus, panic, result>>
      [] OTHER -> UNCHANGED vars

handle_popup_key_event(key_event) ==
    CASE key_event = "Esc" ->
            /\ hide
            /\ UNCHANGED <<exit, transactions, current_index, focus, panic, result>>
      [] key_event = "Enter" ->
            /\ exit' = TRUE
            /\ UNCHANGED <<transactions, current_index, focus, popup, panic, result>>
      [] OTHER -> UNCHANGED vars

\* run is in its loop: no exit asked for, no panic, not returned
Running == pc = "run" /\ ~exit /\ panic = "none" /\ result = <<>>

\* mutant of handle_events: the popup does not take the key events
handle_events_no_modal(key_event) ==
    handle_key_event(key_event)

handle_events(key_event) ==
    IF popup.active THEN handle_popup_key_event(key_event) ELSE handle_key_event(key_event)

\* an event that is no key press
handle_events_other ==
    /\ Running
    /\ UNCHANGED vars

\* mutant of run_return: the records are returned as they were parsed
run_return_as_parsed ==
    /\ pc = "run" /\ exit /\ panic = "none" /\ result = <<>>
    /\ result' = <<[i \in 1..Len(transactions) |->
                    [transactions[i] EXCEPT
                        !.postings_textareas =
                            SubSeq(@, 1, Len(transactions[i].directive.postings))]]>>
    /\ UNCHANGED <<exit, transactions, current_index, focus, popup, panic, startup>>

\* run leaves its loop and returns the transactions
run_return ==
    /\ pc = "run" /\ exit /\ panic = "none" /\ result = <<>>
    /\ result' = <<transactions>>
    /\ UNCHANGED <<exit, transactions, current_index, focus, popup, panic, startup>>

(* One action per key event read by handle_events *)

key_esc == Running /\ handle_events("Esc") /\ UNCHANGED startup

key_enter == Running /\ handle_events("Enter") /\ UNCHANGED startup

key_ctrl_q == Running /\ handle_events("Ctrl+q") /\ UNCHANGED startup

key_ctrl_n == Running /\ handle_events("Ctrl+n") /\ UNCHANGED startup

key_ctrl_p == Running /\ handle_events("Ctrl+p") /\ UNCHANGED startup

key_ctrl_l == Running /\ handle_events("Ctrl+l") /\ UNCHANGED startup

key_ctrl_h == Running /\ handle_events("Ctrl+h") /\ UNCHANGED startup

key_ctrl_j == Running /\ handle_events("Ctrl+j") /\ UNCHANGED startup

key_ctrl_k == Running /\ handle_events("Ctrl+k") /\ UNCHANGED startup

key_ctrl_o == Running /\ handle_events("Ctrl+o") /\ UNCHANGED startup

key_char == Running /\ handle_events("x") /\ UNCHANGED startup

key_backspace == Running /\ handle_events("Backspace") /\ UNCHANGED startup

\* Enter pressed in answer to the popup
key_enter_popup == Running /\ popup.active /\ handle_events("Enter") /\ UNCHANGED startup

Next ==
    \/ key_esc
    \/ key_enter
    \/ key_ctrl_q
    \/ key_ctrl_n
    \/ key_ctrl_p
    \/ key_ctrl_l
    \/ key_ctrl_h
    \/ key_ctrl_j
    \/ key_ctrl_k
    \/ key_ctrl_o
    \/ key_char
    \/ key_backspace
    \/ handle_events_other
    \/ run_return

Spec == Init /\ [][Next]_vars

(* The same program when no key is passed on to a TextArea: the commands,   *)
(* and Enter in answer to the popup.  Text input changes the text and the  *)
(* cursor of one field and nothing that a lookup, a navigation or          *)
(* add_posting reads.                                                      *)
NextNav ==
    \/ key_esc
    \/ key_enter_popup
    \/ key_ctrl_q
    \/ key_ctrl_n
    \/ key_ctrl_p
    \/ key_ctrl_l
    \/ key_ctrl_h
    \/ key_ctrl_j
    \/ key_ctrl_k
    \/ key_ctrl_o
    \/ handle_events_other
    \/ run_return

SpecNav == Init /\ [][NextNav]_vars

(* The start of main: App::new over every file the parser may yield *)
NextLoad ==
    \/ App_new

SpecLoad == InitLoad /\ [][NextLoad]_vars

-----------------------------------------------------------------------------
(* Properties *)

CurrentTransaction == transactions[current_index + 1]

\* a key event that handle_key_event takes past the lookup of the current field
Dispatched == Running /\ ~popup.active /\ CurrentFieldInRange

\* the contents of the text fields of a transaction
MetadataText(tx) == [i \in 1..4 |-> tx.metadata_textareas[i].text]

PostingText(posting) ==
    <<posting.account_textarea.text, posting.amount_textarea.text, posting.currency_textarea.text>>

PostingsText(tx) == [i \in 1..Len(tx.postings_textareas) |-> PostingText(tx.postings_textareas[i])]

\* C1: in every reachable state the focus location is valid for the current
\* transaction: the metadata index is in 0..3 and, while focus is on postings,
\* the selected posting is one of the current transaction's postings.
FocusValid ==
    /\ currently_selected_metadata_field \in 0..3
    /\ focus_on_postings => currently_selected_posting \in 0..(n_postings - 1)

\* C2: no key event makes an out-of-range lookup (which panics) or computes
\* len - 1 on an empty posting list (which panics or wraps to usize::MAX).
NoOutOfRangeAccess ==
    /\ panic = "none"
    /\ currently_selected_posting # USIZE_MAX

\* C3: every step that changes current_index leaves the focus on
\* Metadata(Payee): not on postings, metadata index 2.
SwitchResetsFocus ==
    [][current_index' # current_index =>
            ~focus_on_postings' /\ currently_selected_metadata_field' = 2]_vars

\* C4: current_index stays in [0, len-1]; Ctrl+n at len-1 and Ctrl+p at 0
\* leave it unchanged, any other Ctrl+n adds exactly 1 and any other Ctrl+p
\* subtracts exactly 1; next then prev returns to every index below len-1.
TransactionNavigationSaturates ==
    /\ [](current_index \in 0..(Len(transactions) - 1))
    /\ [](\A i \in 0..(Len(transactions) - 2) :
            prev_transaction_index(next_transaction_index(i, Len(transactions))) = i)
    /\ [][/\ (Dispatched /\ key_ctrl_n) =>
                current_index' = IF current_index = Len(transactions) - 1
                                 THEN current_index ELSE current_index + 1
          /\ (Dispatched /\ key_ctrl_p) =>
                current_index' = IF current_index = 0
                                 THEN current_index ELSE current_index - 1]_vars

WitnessTransactionNavigation ==
    /\ Len(transactions) = 2
    /\ current_index = 1
    /\ transactions[2].metadata_textareas[1].style # "default"

\* C5: while focus is on postings, a move forward from the last posting or
\* backward from posting 0 puts the focus back on the metadata row, any other
\* move changes the posting index by exactly 1 and keeps the focus on
\* postings; no step taken while focus is on postings changes the metadata
\* index, so the row is re-entered at the field it was left at.
PostingBoundaryLeavesToMetadata ==
    [][/\ (Dispatched /\ focus_on_postings /\ key_ctrl_j) =>
            IF currently_selected_posting = n_postings - 1
            THEN ~focus_on_postings'
            ELSE focus_on_postings' /\ currently_selected_posting' = currently_selected_posting + 1
       /\ (Dispatched /\ focus_on_postings /\ key_ctrl_k) =>
            IF currently_selected_posting = 0
            THEN ~focus_on_postings'
            ELSE focus_on_postings' /\ currently_selected_posting' = currently_selected_posting - 1
       /\ focus_on_postings =>
            currently_selected_metadata_field' = currently_selected_metadata_field]_vars

WitnessPostingBoundary ==
    /\ Len(transactions) = 1
    /\ n_postings = 2
    /\ ~focus_on_postings
    /\ currently_selected_posting = 1
    /\ currently_selected_metadata_field = 3
    /\ panic = "none"

\* C6: every completed step that moves the focus from the metadata row into
\* the postings selects posting 0 on Ctrl+j and posting len-1 on Ctrl+k, and
\* the posting-field kind Account.
EnterPostingsSelectsAccount ==
    [][/\ (Dispatched /\ ~focus_on_postings /\ key_ctrl_j /\ panic' = "none") =>
            /\ focus_on_postings'
            /\ currently_selected_posting' = 0
            /\ currently_selected_posting_field' = "Account"
       /\ (Dispatched /\ ~focus_on_postings /\ key_ctrl_k /\ panic' = "none") =>
            /\ focus_on_postings'
            /\ currently_selected_posting' = n_postings - 1
            /\ currently_selected_posting_field' = "Account"]_vars

\* C7: metadata navigation is a cyclic bijection of the slots 0..3: next then
\* prev and prev then next are the identity, next wraps 3 to 0 and prev wraps
\* 0 to 3, Ctrl+l/Ctrl+h on the metadata row apply it, and the index stays
\* in 0..3.
MetadataNavigationCyclic ==
    /\ [](currently_selected_metadata_field \in 0..3)
    /\ [](\A i \in 0..3 :
            /\ navigate_metadata_index(i, TRUE) \in 0..3
            /\ navigate_metadata_index(i, FALSE) \in 0..3
            /\ navigate_metadata_index(navigate_metadata_index(i, TRUE), FALSE) = i
            /\ navigate_metadata_index(navigate_metadata_index(i, FALSE), TRUE) = i)
    /\ [](navigate_metadata_index(3, TRUE) = 0 /\ navigate_metadata_index(0, FALSE) = 3)
    /\ [][/\ (Dispatched /\ ~focus_on_postings /\ key_ctrl_l) =>
                currently_selected_metadata_field' =
                    IF currently_selected_metadata_field = 3 THEN 0
                    ELSE currently_selected_metadata_field + 1
          /\ (Dispatched /\ ~focus_on_postings /\ key_ctrl_h) =>
                currently_selected_metadata_field' =
                    IF currently_selected_metadata_field = 0 THEN 3
                    ELSE currently_selected_metadata_field - 1]_vars

WitnessMetadataWrap ==
    /\ ~focus_on_postings
    /\ currently_selected_metadata_field = 0
    /\ CurrentTransaction.metadata_textareas[1].style = "highlight"

\* the cycle of the posting-field kinds and its reverse
Forward(kind) ==
    CASE kind = "Account" -> "Amount" [] kind = "Amount" -> "Currency" [] kind = "Currency" -> "Account"

Backward(kind) ==
    CASE kind = "Account" -> "Currency" [] kind = "Currency" -> "Amount" [] kind = "Amount" -> "Account"

\* C8: posting-field navigation is the 3-cycle Account -> Amount -> Currency
\* -> Account forward and its reverse backward: three steps either way and
\* forward-then-backward (or backward-then-forward) are the identity, and
\* Ctrl+l/Ctrl+h on a posting apply it.
PostingFieldNavigationCycle ==
    /\ [](\A kind \in {"Account", "Amount", "Currency"} :
            /\ next_field(kind, TRUE) = Forward(kind)
            /\ next_field(kind, FALSE) = Backward(kind)
            /\ next_field(next_field(next_field(kind, TRUE), TRUE), TRUE) = kind
            /\ next_field(next_field(next_field(kind, FALSE), FALSE), FALSE) = kind
            /\ next_field(next_field(kind, TRUE), FALSE) = kind
            /\ next_field(next_field(kind, FALSE), TRUE) = kind)
    /\ [][/\ (Dispatched /\ focus_on_postings /\ key_ctrl_l) =>
                currently_selected_posting_field' = Forward(currently_selected_posting_field)
          /\ (Dispatched /\ focus_on_postings /\ key_ctrl_h) =>
                currently_selected_posting_field' = Backward(currently_selected_posting_field)]_vars

WitnessPostingFieldCycle ==
    /\ focus_on_postings
    /\ currently_selected_posting \in 0..(n_postings - 1)
    /\ currently_selected_posting_field = "Currency"
    /\ CurrentTransaction.postings_textareas[currently_selected_posting + 1]
            .currency_textarea.style = "highlight"

\* C9: Ctrl+o on a transaction with N postings gives it N+1 postings, the new
\* one last with account, amount and currency empty, the first N unchanged,
\* and leaves the focus location as it was.
AddPostingAppendsEmpty ==
    [][(Dispatched /\ key_ctrl_o) =>
            LET before == transactions[current_index + 1]
                after  == transactions'[current_index + 1]
                N      == Len(before.postings_textareas)
            IN  /\ Len(after.postings_textareas) = N + 1
                /\ PostingText(after.postings_textareas[N + 1]) = <<<<>>, <<>>, <<>>>>
                /\ SubSeq(PostingsText(after), 1, N) = PostingsText(before)
                /\ MetadataText(after) = MetadataText(before)
                /\ focus' = focus
                /\ current_index' = current_index]_vars

WitnessAddPosting ==
    /\ Len(transactions) = 1
    /\ Len(CurrentTransaction.directive.postings) = 1
    /\ n_postings = 2
    /\ PostingText(CurrentTransaction.postings_textareas[2]) = <<<<>>, <<>>, <<>>>>
    /\ PostingText(CurrentTransaction.postings_textareas[1]) = <<<<"A">>, <<"1">>, <<"U">>>>
    /\ focus_on_postings
    /\ currently_selected_posting = 0

\* C10: the content of a text field changes only by text input handled while
\* its transaction is the current one: switching transactions and moving the
\* focus leave the content of every field of every transaction as it was
\* left, and nothing sets it back to the parsed data.
EditsPersist ==
    [][\A i \in 1..Len(transactions) :
            \/ /\ MetadataText(transactions'[i]) = MetadataText(transactions[i])
               /\ SubSeq(PostingsText(transactions'[i]), 1, Len(transactions[i].postings_textareas))
                    = PostingsText(transactions[i])
            \/ /\ current_index = i - 1
               /\ current_index' = i - 1
               /\ Dispatched
               /\ key_enter \/ key_char \/ key_backspace]_vars

WitnessEditsPersist ==
    /\ Len(transactions) = 2
    /\ current_index = 0
    /\ transactions[2].metadata_textareas[3].text = <<"x">>
    /\ transactions[1].metadata_textareas[3].style = "highlight"

\* the content of the field the focus location addresses, in the list txs
FocusedText(txs) ==
    IF focus_on_postings
    THEN get_field(txs[current_index + 1].postings_textareas[currently_selected_posting + 1],
                   currently_selected_posting_field).text
    ELSE txs[current_index + 1].metadata_textareas[currently_selected_metadata_field + 1].text

\* new is old with the character c inserted somewhere
Inserted(old, new, c) ==
    \E k \in 0..Len(old) : new = SubSeq(old, 1, k) \o <<c>> \o SubSeq(old, k + 1, Len(old))

\* C11: a key that is no command, handled while the popup is inactive,
\* changes the content of no field but the one the focus location addresses
\* in the current transaction, and leaves the focus location, current_index
\* and the number of postings as they were; a character key inserts its
\* character into that field.
TextInputOnlyFocusedField ==
    [][(Dispatched /\ (key_char \/ key_enter \/ key_backspace)) =>
            /\ focus' = focus
            /\ current_index' = current_index
            /\ Len(transactions') = Len(transactions)
            /\ \A i \in 1..Len(transactions) :
                    /\ Len(transactions'[i].postings_textareas) = Len(transactions[i].postings_textareas)
                    /\ \A j \in 1..4 :
                            \/ transactions'[i].metadata_textareas[j].text
                                    = transactions[i].metadata_textareas[j].text
                            \/ /\ i = current_index + 1
                               /\ ~focus_on_postings
                               /\ j = currently_selected_metadata_field + 1
                    /\ \A k \in 1..Len(transactions[i].postings_textareas) :
                       \A kind \in {"Account", "Amount", "Currency"} :
                            \/ get_field(transactions'[i].postings_textareas[k], kind).text
                                    = get_field(transactions[i].postings_textareas[k], kind).text
                            \/ /\ i = current_index + 1
                               /\ focus_on_postings
                               /\ k = currently_selected_posting + 1
                               /\ kind = currently_selected_posting_field
            /\ key_char => Inserted(FocusedText(transactions), FocusedText(transactions'), "x")]_vars

WitnessTextInput ==
    /\ focus_on_postings
    /\ currently_selected_posting = 0
    /\ currently_selected_posting_field = "Amount"
    /\ n_postings = 1
    /\ PostingText(CurrentTransaction.postings_textareas[1]) = <<<<"A">>, <<"x", "1">>, <<"U">>>>
    /\ MetadataText(CurrentTransaction) = MetadataText(TransactionTuiFrom(ParsedDirective(1)))

\* C12: while the popup is active no key event changes current_index, the
\* focus location, the number of postings or the content of a text field,
\* and a key other than Esc and Enter changes nothing at all.
ModalExclusive ==
    [][(Running /\ popup.active) =>
            /\ current_index' = current_index
            /\ focus' = focus
            /\ Len(transactions') = Len(transactions)
            /\ \A i \in 1..Len(transactions) :
                    /\ MetadataText(transactions'[i]) = MetadataText(transactions[i])
                    /\ PostingsText(transactions'[i]) = PostingsText(transactions[i])
            /\ key_esc \/ key_enter]_vars

WitnessModalKey ==
    /\ popup.active
    /\ exit
    /\ focus_on_postings
    /\ Typed = 1

\* the editing state is the same after the step as before it
SameEditingState ==
    /\ current_index' = current_index
    /\ focus' = focus
    /\ Len(transactions') = Len(transactions)
    /\ \A i \in 1..Len(transactions) :
            /\ MetadataText(transactions'[i]) = MetadataText(transactions[i])
            /\ PostingsText(transactions'[i]) = PostingsText(transactions[i])

\* C13: a quit key shows the popup: active becomes true and the prompt is
\* exactly the message given to show; Esc handled while the popup is active
\* makes it inactive and does not set exit; showing, every key handled while
\* it is shown, and cancelling all leave current_index, the focus location
\* and the content of every text field as they were, so that a quit key
\* followed by Esc is the identity on the editing state.
PopupShowAndCancel ==
    [][/\ (Dispatched /\ (key_esc \/ key_ctrl_q)) =>
            /\ popup' = [active |-> TRUE,
                         prompt |-> "Do you want to close the application and print the transaction to stdout?"]
            /\ ~exit'
            /\ SameEditingState
       /\ (Running /\ popup.active) => SameEditingState
       /\ (Running /\ popup.active /\ key_esc) =>
            /\ ~popup'.active
            /\ ~exit'
            /\ SameEditingState]_vars

WitnessPopupCancelled ==
    /\ ~popup.active
    /\ popup.prompt # ""
    /\ ~exit
    /\ panic = "none"
    /\ focus_on_postings
    /\ currently_selected_posting_field = "Currency"
    /\ current_index = 1

\* C14: Enter handled while the popup is active sets exit, whatever the
\* focus location and current_index were when the popup was shown.
ConfirmSetsExit ==
    [][(Running /\ popup.active /\ key_enter_popup) => exit']_vars

WitnessConfirmed ==
    /\ exit
    /\ result # <<>>
    /\ focus_on_postings
    /\ currently_selected_posting = 0
    /\ currently_selected_posting_field = "Amount"
    /\ current_index = 1
    /\ n_postings = 2

\* the positions of the transactions in a list of directives, and the
\* directive at the j-th of them
TransactionPositions(directives) ==
    {i \in 1..Len(directives) : directives[i].content.kind = "Transaction"}

NthTransaction(directives, j) ==
    LET positions == TransactionPositions(directives)
    IN  directives[CHOOSE i \in positions : Cardinality({k \in positions : k < i}) = j - 1]

ExampleFile ==
    <<OtherDirective("Open"), ParsedDirective(0), OtherDirective("Balance"),
      ParsedDirective(1), OtherDirective("Price")>>

\* C15: filter_transactions returns the transactions of its input, each once
\* and in their order in the input, and drops every other directive without
\* an error; App::new builds its records from exactly these;
\* [Open, Transaction(A), Balance, Transaction(B), Price] gives [A, B].
FilterKeepsTransactionsInOrder ==
    /\ beancount.ok =>
            LET directives == beancount.value
                filtered   == filter_transactions(directives)
            IN  /\ Len(filtered) = Cardinality(TransactionPositions(directives))
                /\ \A j \in 1..Len(filtered) : filtered[j] = NthTransaction(directives, j)
                /\ panic # "Couldn't parse trnsaction!"
                /\ pc = "run" =>
                        /\ Len(transactions) = Cardinality(TransactionPositions(directives))
                        /\ \A j \in 1..Len(transactions) :
                                transactions[j].directive = NthTransaction(directives, j).content
    /\ filter_transactions(ExampleFile) = <<ParsedDirective(0), ParsedDirective(1)>>

WitnessFilter ==
    /\ pc = "run"
    /\ beancount = Ok(SubSeq(ExampleFile, 1, 4))
    /\ Len(transactions) = 2
    /\ transactions[1].directive = ParsedDirective(0).content
    /\ transactions[2].directive = ParsedDirective(1).content

\* the content of a field: as it is in the buffer, line breaks included, or
\* (spaced) with every line break turned into one space
Content(ta, spaced) ==
    [i \in 1..Len(ta.text) |-> IF spaced /\ ta.text[i] = "\n" THEN " " ELSE ta.text[i]]

\* the lines of the postings from the i-th on, each after a line break
RECURSIVE PostingLines(_, _, _)
PostingLines(postings, i, spaced) ==
    IF i > Len(postings) THEN <<>>
    ELSE (IF i = 1 THEN <<>> ELSE <<"\n">>)
            \o <<" ", " ", " ", " ">> \o Content(postings[i].account_textarea, spaced)
            \o <<" ", " ", " ", " ">> \o Content(postings[i].amount_textarea, spaced)
            \o <<" ">> \o Content(postings[i].currency_textarea, spaced)
            \o PostingLines(postings, i + 1, spaced)

\* the text the format rule gives for a record, fields read spaced or not
Formatted(tx, spaced) ==
    Content(tx.metadata_textareas[1], spaced) \o <<" ">> \o Content(tx.metadata_textareas[2], spaced) \o <<" ">>
        \o Content(tx.metadata_textareas[3], spaced) \o <<" ">> \o Content(tx.metadata_textareas[4], spaced)
        \o <<"\n">> \o PostingLines(tx.postings_textareas, 1, spaced)

ExampleRecord ==
    [directive |-> ParsedDirective(1).content,
     metadata_textareas |->
        << create_textarea(<<"2", "0", "2", "4", "-", "0", "1", "-", "0", "1">>), create_textarea(<<"*">>),
           create_textarea(<<"T", "e", "s", "t">>), create_textarea(<<"N", "o", "t", "e">>) >>,
     postings_textareas |->
        << [account_textarea  |-> create_textarea(<<"A", "s", "s", "e", "t", "s", ":", "C", "a", "s", "h">>),
            amount_textarea   |-> create_textarea(<<"1", "0", ".", "0", "0">>),
            currency_textarea |-> create_textarea(<<"U", "S", "D">>)] >>]

ExampleText ==
    <<"2", "0", "2", "4", "-", "0", "1", "-", "0", "1", " ", "*", " ", "T", "e", "s", "t", " ", "N", "o", "t", "e", "\n">>
    \o <<" ", " ", " ", " ", "A", "s", "s", "e", "t", "s", ":", "C", "a", "s", "h", " ", " ", " ", " ", "1", "0", ".", "0", "0", " ", "U", "S", "D">>

\* C16 as claimed: the output of format_transaction is the contents of the
\* four metadata fields in the order Date, Flag, Payee, Narration joined by
\* single spaces, a line break, and one line per posting in list order: four
\* spaces, account, four spaces, amount, one space, currency, the lines
\* joined by line breaks.
FormatJoinsFieldContents ==
    /\ \A i \in 1..Len(transactions) :
            format_transaction(transactions[i]) = Formatted(transactions[i], FALSE)
    /\ format_transaction(ExampleRecord) = ExampleText

\* C16 as amended: the same, the content of a field being its lines joined
\* by single spaces: a line break inside a field comes out as a space.
FormatJoinsFieldLines ==
    /\ \A i \in 1..Len(transactions) :
            format_transaction(transactions[i]) = Formatted(transactions[i], TRUE)
    /\ format_transaction(ExampleRecord) = ExampleText

WitnessFormatMultiLine ==
    /\ n_postings = 1
    /\ CurrentTransaction.postings_textareas[1].account_textarea.text = <<"\n", "A">>
    /\ format_transaction(CurrentTransaction)
            = <<"2", "0", "2", "4", "-", "1", "2", "-", "3", "1", " ", "!", " ", "P", " ", "N", "\n", " ", " ", " ", " ", " ", "A", " ", " ", " ", " ", "1", " ", "U">>

\* the number a string of decimal digits writes; -1 if it is none
RECURSIVE ParseNat(_)
ParseNat(text) ==
    IF text = <<>> THEN 0
    ELSE LET last == text[Len(text)]
             init == ParseNat(SubSeq(text, 1, Len(text) - 1))
         IN  IF init < 0 \/ \A n \in 0..9 : Digit(n) # <<last>>
             THEN 0 - 1
             ELSE 10 * init + (CHOOSE n \in 0..9 : Digit(n) = <<last>>)

\* text writes date as YYYY-MM-DD
IsDateText(text, date) ==
    /\ Len(text) = 10
    /\ text[5] = "-" /\ text[8] = "-"
    /\ ParseNat(SubSeq(text, 1, 4)) = date.year
    /\ ParseNat(SubSeq(text, 6, 7)) = date.month
    /\ ParseNat(SubSeq(text, 9, 10)) = date.day

\* record holds the text fields the directive value (a transaction) is to get
RecordOf(record, value) ==
    LET transaction == value.content IN
    /\ IsDateText(record.metadata_textareas[1].text, value.date)
    /\ record.metadata_textareas[2].text =
            IF transaction.flag = None THEN <<"*">> ELSE transaction.flag.value
    /\ record.metadata_textareas[3].text =
            IF transaction.payee = None THEN <<>> ELSE transaction.payee.value
    /\ record.metadata_textareas[4].text =
            IF transaction.narration = None THEN <<>> ELSE transaction.narration.value
    /\ Len(record.postings_textareas) = Len(transaction.postings)
    /\ \A k \in 1..Len(transaction.postings) :
            LET parsed == transaction.postings[k] IN
            PostingText(record.postings_textareas[k]) =
                IF parsed.amount = None
                THEN <<parsed.account, <<>>, <<>>>>
                ELSE <<parsed.account, parsed.amount.value.value, parsed.amount.value.currency>>

EmptyLedgerIsStartupError ==
    [][(App_new /\ beancount.ok /\ filter_transactions(beancount.value) = <<>>) =>
            pc' = "err" /\ panic' = "none"]_vars

\* C19: the App that App::new returns has exit = false, current_index = 0,
\* the focus on the metadata row at index 2 (Payee), selected posting 0 and
\* field kind Account, the popup inactive, and at least one transaction.
FreshAppState ==
    [][(App_new /\ pc' = "run") =>
            /\ exit' = FALSE
            /\ current_index' = 0
            /\ focus_on_postings' = FALSE
            /\ currently_selected_metadata_field' = 2
            /\ METAFIELD_ORDER[currently_selected_metadata_field' + 1] = "Payee"
            /\ currently_selected_posting' = 0
            /\ currently_selected_posting_field' = "Account"
            /\ popup'.active = FALSE
            /\ Len(transactions') > 0]_vars

WitnessFreshApp ==
    /\ pc = "run"
    /\ Len(transactions) = 3
    /\ ~focus_on_postings
    /\ currently_selected_metadata_field = 2
    /\ transactions[1].metadata_textareas[3].style = "highlight"

\* C20: Ctrl+l, Ctrl+h, Ctrl+j, Ctrl+k, Ctrl+n, Ctrl+p, Esc and Ctrl+q leave
\* the content of every text field of every transaction, and the number of
\* postings of every transaction, as they were.
NavigationKeepsText ==
    [][(key_ctrl_l \/ key_ctrl_h \/ key_ctrl_j \/ key_ctrl_k \/ key_ctrl_n \/ key_ctrl_p
            \/ key_esc \/ key_ctrl_q) =>
            /\ Len(transactions') = Len(transactions)
            /\ \A i \in 1..Len(transactions) :
                    /\ Len(transactions'[i].postings_textareas) = Len(transactions[i].postings_textareas)
                    /\ MetadataText(transactions'[i]) = MetadataText(transactions[i])
                    /\ PostingsText(transactions'[i]) = PostingsText(transactions[i])]_vars

WitnessNavigated ==
    /\ popup.active
    /\ ~exit
    /\ Len(transactions) = 2
    /\ current_index = 1
    /\ focus_on_postings
    /\ currently_selected_posting_field = "Currency"
    /\ currently_selected_metadata_field = 0
    /\ MetadataText(transactions[2]) = MetadataText(TransactionTuiFrom(ParsedDirective(1)))
    /\ PostingsText(transactions[2]) = PostingsText(TransactionTuiFrom(ParsedDirective(1)))

\* C21: exit becomes true only by Enter handled while the popup is active;
\* the popup becomes active only by Esc or Ctrl+q handled while it is
\* inactive; a quit key handled in normal mode sets popup.active and the
\* prompt, does not set exit, and changes neither the focus location nor
\* current_index.
ExitRequiresConfirmation ==
    [][/\ (~exit /\ exit') => (Running /\ popup.active /\ key_enter)
       /\ (~popup.active /\ popup'.active) =>
            (Running /\ ~popup.active /\ (key_esc \/ key_ctrl_q))
       /\ (Dispatched /\ (key_esc \/ key_ctrl_q)) =>
            /\ popup'.active
            /\ popup'.prompt # ""
            /\ exit' = exit
            /\ focus' = focus
            /\ current_index' = current_index]_vars

WitnessExitConfirmed ==
    /\ exit
    /\ popup.active
    /\ popup.prompt # ""
    /\ Typed = 1
    /\ result = <<>>

\* C22: a quit key handled while the popup is inactive completes and
\* activates the popup, whatever the focus location is, so that Enter next
\* sets exit: no reachable state makes the quit key fail.
QuitAlwaysPossible ==
    [][(Running /\ ~popup.active /\ (key_esc \/ key_ctrl_q)) =>
            popup'.active /\ panic' = "none"]_vars

\* C23: once exit is true no key event is handled: the one step left is the
\* return of run, and the value returned is the transaction list as it is
\* then, with the text typed and the postings added.
ExitReturnsEditedRecords ==
    /\ [](result # <<>> => result[1] = transactions)
    /\ [][exit => /\ result' = <<transactions>>
                  /\ UNCHANGED <<app, panic, startup>>]_vars

WitnessReturnedEdits ==
    /\ result # <<>>
    /\ Len(result[1]) = 2
    /\ Len(result[1][2].postings_textareas) = Len(result[1][2].directive.postings) + 1
    /\ MetadataText(result[1][1]) = MetadataText(TransactionTuiFrom(ParsedDirective(0)))

\* the fields of the current transaction that carry the highlight style
Highlighted ==
    {<<"metadata", i - 1>> : i \in {j \in 1..4 :
            CurrentTransaction.metadata_textareas[j].style = "highlight"}}
    \cup {<<"posting", pk[1] - 1, pk[2]>> :
            pk \in {qk \in (1..n_postings) \X {"Account", "Amount", "Currency"} :
                get_field(CurrentTransaction.postings_textareas[qk[1]], qk[2]).style = "highlight"}}

\* C24: after App::new and after every key event exactly one text field of
\* the current transaction carries the highlight style, and it is the field
\* the focus location addresses.
HighlightFollowsFocus ==
    Highlighted =
        { IF focus_on_postings
          THEN <<"posting", currently_selected_posting, currently_selected_posting_field>>
          ELSE <<"metadata", currently_selected_metadata_field>> }

\* the posting counts and the contents of the text fields of transaction i
\* are the same after the step as before it
SameRecord(i) ==
    /\ Len(transactions'[i].postings_textareas) = Len(transactions[i].postings_textareas)
    /\ MetadataText(transactions'[i]) = MetadataText(transactions[i])
    /\ PostingsText(transactions'[i]) = PostingsText(transactions[i])

\* C25: no step changes the number of transactions or their order, none
\* makes the number of postings of a transaction smaller, and a step
\* changes the posting count or a text content in no transaction but the
\* one at current_index.
StructureAppendOnlyLocal ==
    [][/\ Len(transactions') = Len(transactions)
       /\ \A i \in 1..Len(transactions) :
            /\ transactions'[i].directive = transactions[i].directive
            /\ Len(transactions'[i].postings_textareas) >= Len(transactions[i].postings_textareas)
            /\ i # current_index + 1 => SameRecord(i)]_vars

WitnessAppendedLocally ==
    /\ Len(transactions) = 2
    /\ Len(transactions[2].postings_textareas) = Len(transactions[2].directive.postings) + 1
    /\ Len(transactions[1].postings_textareas) = Len(transactions[1].directive.postings)
    /\ current_index = 0

\* C26: while the focus is on postings, Ctrl+l/Ctrl+h change of the focus
\* location only the field kind, and a Ctrl+j/Ctrl+k that stays inside the
\* list only the posting index; while the focus is on the metadata row,
\* Ctrl+l/Ctrl+h change only the metadata index; none of them changes
\* current_index.
NavigationAxesIndependent ==
    [][/\ (Dispatched /\ focus_on_postings /\ (key_ctrl_l \/ key_ctrl_h)) =>
            /\ focus_on_postings'
            /\ currently_selected_posting' = currently_selected_posting
            /\ currently_selected_metadata_field' = currently_selected_metadata_field
            /\ current_index' = current_index
       /\ (Dispatched /\ focus_on_postings /\ (key_ctrl_j \/ key_ctrl_k) /\ focus_on_postings') =>
            /\ currently_selected_posting_field' = currently_selected_posting_field
            /\ currently_selected_metadata_field' = currently_selected_metadata_field
            /\ current_index' = current_index
       /\ (Dispatched /\ ~focus_on_postings /\ (key_ctrl_l \/ key_ctrl_h)) =>
            /\ ~focus_on_postings'
            /\ currently_selected_posting' = currently_selected_posting
            /\ currently_selected_posting_field' = currently_selected_posting_field
            /\ current_index' = current_index]_vars

WitnessAxes ==
    /\ panic = "none"
    /\ focus_on_postings
    /\ n_postings = 2
    /\ currently_selected_posting = 1
    /\ currently_selected_posting_field = "Amount"
    /\ currently_selected_metadata_field = 1
    /\ current_index = 1

====
